---- MODULE Spec2Model ----
(***************************************************************************)
(* Model of the three CoinSwitch client scripts (Get_Portfolio.py,         *)
(* Get_Price.py, Place_Order.py): the signature message builder, the       *)
(* signer, the request dispatcher _send_request and the domain operations  *)
(* built on it.                                                            *)
(*                                                                         *)
(* Strings are sequences of one-character strings, so that urlencode,      *)
(* unquote_plus, str() and json.dumps are computed character by character. *)
(***************************************************************************)
EXTENDS Integers, Sequences, FiniteSets, TLC

(* ------------------------------------------------------------------------ *)
(* Bounds of the model                                                      *)
(* ------------------------------------------------------------------------ *)
\* first value of time.time()*1000 seen by the model (milliseconds)
T0 == 999998
\* number of milliseconds the clock may advance
MaxTicks == 2

(* ------------------------------------------------------------------------ *)
(* Characters and their ASCII codes                                         *)
(* ------------------------------------------------------------------------ *)
Lower == <<"a","b","c","d","e","f","g","h","i","j","k","l","m",
           "n","o","p","q","r","s","t","u","v","w","x","y","z">>
Upper == <<"A","B","C","D","E","F","G","H","I","J","K","L","M",
           "N","O","P","Q","R","S","T","U","V","W","X","Y","Z">>
Digits == <<"0","1","2","3","4","5","6","7","8","9">>
Punct == << <<" ", 32>>, <<"\"", 34>>, <<"%", 37>>, <<"&", 38>>, <<"+", 43>>,
            <<",", 44>>, <<"-", 45>>, <<".", 46>>, <<"/", 47>>, <<":", 58>>,
            <<"=", 61>>, <<"?", 63>>, <<"\\", 92>>, <<"_", 95>>, <<"{", 123>>,
            <<"}", 125>>, <<"~", 126>> >>

Range(s) == {s[i] : i \in DOMAIN s}

\* str.lower() of ASCII text
PyLower(s) ==
  [i \in DOMAIN s |->
     IF \E j \in DOMAIN Upper : Upper[j] = s[i]
       THEN Lower[CHOOSE j \in DOMAIN Upper : Upper[j] = s[i]]
     ELSE s[i]]

\* the character a byte outside the table decodes to
OtherChar == "<other>"

Ord(c) ==
  IF \E i \in DOMAIN Lower : Lower[i] = c
    THEN 96 + (CHOOSE i \in DOMAIN Lower : Lower[i] = c)
  ELSE IF \E i \in DOMAIN Upper : Upper[i] = c
    THEN 64 + (CHOOSE i \in DOMAIN Upper : Upper[i] = c)
  ELSE IF \E i \in DOMAIN Digits : Digits[i] = c
    THEN 47 + (CHOOSE i \in DOMAIN Digits : Digits[i] = c)
  ELSE IF \E i \in DOMAIN Punct : Punct[i][1] = c
    THEN Punct[CHOOSE i \in DOMAIN Punct : Punct[i][1] = c][2]
  ELSE 0

Chr(n) ==
  IF n \in 97..122 THEN Lower[n - 96]
  ELSE IF n \in 65..90 THEN Upper[n - 64]
  ELSE IF n \in 48..57 THEN Digits[n - 47]
  ELSE IF \E i \in DOMAIN Punct : Punct[i][2] = n
    THEN Punct[CHOOSE i \in DOMAIN Punct : Punct[i][2] = n][1]
  ELSE OtherChar

HexDigits == <<"0","1","2","3","4","5","6","7","8","9","A","B","C","D","E","F">>

IsHex(c) == \/ c \in Range(HexDigits)
            \/ c \in {"a","b","c","d","e","f"}

HexVal(c) ==
  IF c \in Range(Digits) THEN Ord(c) - 48
  ELSE IF c \in {"A","B","C","D","E","F"} THEN Ord(c) - 55
  ELSE Ord(c) - 87

\* str(int)
RECURSIVE StrNat(_)
StrNat(n) == IF n < 10 THEN <<Digits[n + 1]>>
             ELSE StrNat(n \div 10) \o <<Digits[(n % 10) + 1]>>

StrInt(n) == IF n < 0 THEN <<"-">> \o StrNat(0 - n) ELSE StrNat(n)

\* a non-empty string of decimal digits, and the number it denotes
IsDecimal(s) == s # <<>> /\ \A i \in DOMAIN s : s[i] \in Range(Digits)

RECURSIVE ParseNat(_)
ParseNat(s) == IF s = <<>> THEN 0
               ELSE 10 * ParseNat(SubSeq(s, 1, Len(s) - 1)) + HexVal(s[Len(s)])

\* concatenation of a sequence of strings (by halves, to keep the
\* evaluation shallow)
RECURSIVE Concat(_)
Concat(ss) ==
  IF ss = <<>> THEN <<>>
  ELSE IF Len(ss) = 1 THEN ss[1]
  ELSE Concat(SubSeq(ss, 1, Len(ss) \div 2))
       \o Concat(SubSeq(ss, (Len(ss) \div 2) + 1, Len(ss)))

\* sep.join(ss)
Join(sep, ss) ==
  Concat([i \in DOMAIN ss |-> IF i = 1 THEN ss[i] ELSE sep \o ss[i]])

\* a < b for strings, by code point
RECURSIVE StrLess(_, _)
StrLess(a, b) ==
  IF b = <<>> THEN FALSE
  ELSE IF a = <<>> THEN TRUE
  ELSE IF Ord(a[1]) # Ord(b[1]) THEN Ord(a[1]) < Ord(b[1])
  ELSE StrLess(Tail(a), Tail(b))

\* sorted(items) by key
RECURSIVE InsertItem(_, _)
InsertItem(it, sorted) ==
  IF sorted = <<>> THEN <<it>>
  ELSE IF StrLess(it[1], sorted[1][1]) THEN <<it>> \o sorted
  ELSE <<sorted[1]>> \o InsertItem(it, Tail(sorted))

RECURSIVE SortItems(_)
SortItems(items) ==
  IF items = <<>> THEN <<>>
  ELSE InsertItem(items[1], SortItems(Tail(items)))

(* ------------------------------------------------------------------------ *)
(* urllib.parse: quote_plus, urlencode, unquote_plus, urlparse(...).query   *)
(* ------------------------------------------------------------------------ *)
\* characters quote() never escapes
AlwaysSafe == Range(Lower) \cup Range(Upper) \cup Range(Digits)
              \cup {"_", ".", "-", "~"}

QuoteChar(c) ==
  IF c \in AlwaysSafe THEN <<c>>
  ELSE IF c = " " THEN <<"+">>
  ELSE <<"%", HexDigits[(Ord(c) \div 16) + 1], HexDigits[(Ord(c) % 16) + 1]>>

quote_plus(s) == Concat([i \in DOMAIN s |-> QuoteChar(s[i])])

\* position i of s starts an escape %XX.  Two escapes never overlap, since
\* the two characters after the "%" of an escape are hex digits.
IsEscape(s, i) ==
  /\ i >= 1
  /\ i + 2 <= Len(s)
  /\ s[i] = "%"
  /\ IsHex(s[i + 1])
  /\ IsHex(s[i + 2])

\* every %XX is replaced by the character of code XX, left to right
unquote(s) ==
  Concat([i \in DOMAIN s |->
            IF IsEscape(s, i) THEN <<Chr(16 * HexVal(s[i + 1]) + HexVal(s[i + 2]))>>
            ELSE IF IsEscape(s, i - 1) \/ IsEscape(s, i - 2) THEN <<>>
            ELSE <<s[i]>>])

unquote_plus(s) == unquote([i \in DOMAIN s |-> IF s[i] = "+" THEN " " ELSE s[i]])

\* n written with exactly width digits
RECURSIVE Padded(_, _)
Padded(n, width) ==
  IF width = 0 THEN <<>>
  ELSE Padded(n \div 10, width - 1) \o <<Digits[(n % 10) + 1]>>

\* the digits of a fraction of width digits, without trailing zeros
RECURSIVE FractionDigits(_, _)
FractionDigits(n, width) ==
  IF width = 1 \/ (n % 10 # 0) THEN Padded(n, width)
  ELSE FractionDigits(n \div 10, width - 1)

\* repr of a float given in millionths (one not written with an exponent)
MicroStr(m) ==
  (IF m < 0 THEN <<"-">> ELSE <<>>)
  \o StrNat((IF m < 0 THEN 0 - m ELSE m) \div 1000000)
  \o <<".">>
  \o FractionDigits((IF m < 0 THEN 0 - m ELSE m) % 1000000, 6)

\* a scalar value: [t |-> "str", s |-> chars], [t |-> "int", n |-> Int],
\* [t |-> "float", n |-> Int] (the float n.0), [t |-> "micro", m |-> Int]
\* (the float m / 1000000), [t |-> "nan"] (the float nan)
PyStr(v) == IF v.t = "str" THEN v.s
            ELSE IF v.t = "int" THEN StrInt(v.n)
            ELSE IF v.t = "micro" THEN MicroStr(v.m)
            ELSE IF v.t = "nan" THEN <<"n","a","n">>
            ELSE StrInt(v.n) \o <<".", "0">>

\* as urlencode, but the pairs are put in key order
urlencode_sorted(params) ==
  Join(<<"&">>, [i \in DOMAIN params |->
                   quote_plus(SortItems(params)[i][1]) \o <<"=">>
                   \o quote_plus(PyStr(SortItems(params)[i][2]))])

\* params is a sequence of <<key, value>> pairs in insertion order
urlencode(params) ==
  Join(<<"&">>, [i \in DOMAIN params |->
                   quote_plus(params[i][1]) \o <<"=">> \o quote_plus(PyStr(params[i][2]))])

\* urlparse(endpoint).query: what follows the first "?"
UrlQuery(endpoint) ==
  IF \E i \in DOMAIN endpoint : endpoint[i] = "?"
    THEN SubSeq(endpoint,
                (CHOOSE i \in DOMAIN endpoint :
                   /\ endpoint[i] = "?"
                   /\ \A j \in 1..(i - 1) : endpoint[j] # "?") + 1,
                Len(endpoint))
  ELSE <<>>

(* ------------------------------------------------------------------------ *)
(* Python values: None, dicts, JSON values                                  *)
(* ------------------------------------------------------------------------ *)
\* An Optional[Dict] argument: None, or a dict given by its items in
\* insertion order (a sequence of <<key, value>> pairs with distinct keys).
None == [isNone |-> TRUE, items |-> <<>>]
Dict(items) == [isNone |-> FALSE, items |-> items]

\* truth value of an Optional[Dict]: None and the empty dict are false
DictTruthy(d) == ~d.isNone /\ d.items # <<>>

PStr(chars) == [t |-> "str", s |-> chars]
PInt(n) == [t |-> "int", n |-> n]
PFloat(n) == [t |-> "float", n |-> n]
PMicro(m) == [t |-> "micro", m |-> m]
PNaN == [t |-> "nan"]

\* JSON string literal: quotes and backslashes are escaped
JsonEscape(s) ==
  Concat([i \in DOMAIN s |->
            IF s[i] \in {"\"", "\\"} THEN <<"\\", s[i]>> ELSE <<s[i]>>])

JsonString(s) == <<"\"">> \o JsonEscape(s) \o <<"\"">>

JsonScalar(v) == IF v.t = "str" THEN JsonString(v.s)
                 ELSE IF v.t = "nan" THEN <<"N","a","N">>
                 ELSE PyStr(v)

\* json.dumps(payload, separators=(",", ":"), sort_keys=True)
json_dumps(payload) ==
  LET items == SortItems(payload.items)
  IN <<"{">>
     \o Join(<<",">>, [i \in DOMAIN items |->
                         JsonString(items[i][1]) \o <<":">> \o JsonScalar(items[i][2])])
     \o <<"}">>

(* ------------------------------------------------------------------------ *)
(* Program constants                                                        *)
(* ------------------------------------------------------------------------ *)
GET == <<"G","E","T">>
POST == <<"P","O","S","T">>
DELETE == <<"D","E","L","E","T","E">>
PUT == <<"P","U","T">>

BASE_URL == <<"h","t","t","p","s",":","/","/","c","o","i","n","s","w","i","t","c","h",".","c","o">>
CandlesEndpoint == <<"/","t","r","a","d","e","/","a","p","i","/","v","2","/","c","a","n","d","l","e","s">>
OrderEndpoint == <<"/","t","r","a","d","e","/","a","p","i","/","v","2","/","o","r","d","e","r">>
PortfolioEndpoint == <<"/","t","r","a","d","e","/","a","p","i","/","v","2","/","u","s","e","r","/","p","o","r","t","f","o","l","i","o">>
TRADE_SYMBOL == <<"B","T","C","/","I","N","R">>
TRADE_EXCHANGE == <<"c","o","i","n","s","w","i","t","c","h","x">>
COINSWITCH_API_KEY == "KEY_HERE"
\* timeout=10 of requests.request
RequestTimeout == 10
\* lookback of get_current_price_from_candle: 5 * 60 * 1000 ms
PriceLookbackMs == 300000
\* lookback of fetch_btc_data: 60 * 1000 ms
FetchLookbackMs == 60000
\* TARGET_INR_AMOUNT of the order placement script
TARGET_INR_AMOUNT == 10000
\* an Ed25519 seed is 32 bytes
Ed25519KeyBytes == 32

\* the three scripts
Portfolio == "Get_Portfolio"
Price == "Get_Price"
Order == "Place_Order"
Variants == {Portfolio, Price, Order}

(* ------------------------------------------------------------------------ *)
(* Outcomes of a call: a returned value or a raised exception               *)
(* ------------------------------------------------------------------------ *)
PyNone == [t |-> "null"]
JList(elems) == [t |-> "list", elems |-> elems]
\* a parsed JSON object: items are <<key, value>> pairs, keys are strings
JDict(items) == [t |-> "dict", items |-> items]

\* no status appears in the text of an exception
NoStatus == <<>>
NoBody == [isJson |-> FALSE, val |-> [t |-> "absent"]]

\* What a caller holds after a call.  For a raised exception: exc is its
\* class, origin is the failure named in its message text, status is the HTTP
\* status as it is written in its message text (NoStatus when none), body is the response
\* body the exception object gives access to (NoBody when none).
Return(v) == [kind |-> "return", val |-> v, exc |-> "", origin |-> "",
              status |-> NoStatus, body |-> NoBody]
Raise(exc, origin, status) ==
  [kind |-> "raise", val |-> PyNone, exc |-> exc, origin |-> origin,
   status |-> status, body |-> NoBody]

\* raise Wrapper(f"...: {e}") inside "except Exception as e"
Reraise(exc, o) == [o EXCEPT !.exc = exc]

NotCalled == [kind |-> "none", val |-> PyNone, exc |-> "", origin |-> "",
              status |-> NoStatus, body |-> NoBody]

(* ------------------------------------------------------------------------ *)
(* _generate_signature                                                      *)
(* ------------------------------------------------------------------------ *)
\* the endpoint as it enters the signed message
EndpointForSignature(variant, method, endpoint, params) ==
  IF variant # Portfolio /\ method = GET /\ DictTruthy(params)
    THEN unquote_plus(endpoint
                      \o (IF UrlQuery(endpoint) = <<>> THEN <<"?">> ELSE <<"&">>)
                      \o urlencode(params.items))
  ELSE endpoint

\* what the payload adds to the signed message
PayloadForSignature(variant, payload) ==
  IF variant = Price /\ DictTruthy(payload) THEN json_dumps(payload) ELSE <<>>

\* as signature_msg, but the epoch enters the message in seconds
signature_msg_seconds(variant, method, endpoint, epoch_time, params, payload) ==
  method \o EndpointForSignature(variant, method, endpoint, params)
  \o StrInt(ParseNat(epoch_time) \div 1000)
  \o PayloadForSignature(variant, payload)

signature_msg(variant, method, endpoint, epoch_time, params, payload) ==
  method \o EndpointForSignature(variant, method, endpoint, params) \o epoch_time
  \o PayloadForSignature(variant, payload)

\* bytes.fromhex(secret_key): the key is given by its length and by whether
\* all its characters are hexadecimal digits
FromHexOk(key) == key.hex /\ key.nchars % 2 = 0

\* Ed25519PrivateKey.from_private_bytes, .sign and .hex(): the signature is
\* determined by the seed and the message
Ed25519Sign(key, msg) == [seed |-> key, msg |-> msg]

\* _generate_signature: every failure inside it leaves as ValueError
GenerateSignature(variant, key, supported, method, endpoint, epoch_time, params, payload) ==
  IF ~FromHexOk(key) THEN Raise("ValueError", "fromhex", NoStatus)
  ELSE IF ~supported THEN Raise("ValueError", "UnsupportedAlgorithm", NoStatus)
  ELSE IF key.nchars \div 2 # Ed25519KeyBytes
    THEN Raise("ValueError", "from_private_bytes", NoStatus)
  ELSE Return(Ed25519Sign(key, signature_msg(variant, method, endpoint,
                                             epoch_time, params, payload)))

(* ------------------------------------------------------------------------ *)
(* _send_request                                                            *)
(* ------------------------------------------------------------------------ *)
\* the handler of a failed _generate_signature
SignFailure(variant, o) ==
  IF variant = Order THEN Reraise("ValueError", o)
  ELSE Reraise("RuntimeError", o)

\* as WireParams, but the params go out whatever the method
WireParams_always(variant, method, params) ==
  IF variant # Portfolio THEN params ELSE None

\* params=params if method == "GET" else None
WireParams(variant, method, params) ==
  IF variant # Portfolio /\ method = GET THEN params ELSE None

\* json=payload if method in ["POST", "DELETE"] else None
WireJson(variant, method, payload) ==
  IF variant # Portfolio /\ method \in {POST, DELETE} THEN payload ELSE None

Headers(api_key, signature, epoch_time) ==
  ("Content-Type" :> "application/json") @@ ("X-AUTH-APIKEY" :> api_key)
  @@ ("X-AUTH-SIGNATURE" :> signature) @@ ("X-AUTH-EPOCH" :> epoch_time)

\* the arguments of requests.request
WireRequest(variant, method, endpoint, headers, params, payload) ==
  [method |-> method, url |-> BASE_URL \o endpoint, headers |-> headers,
   params |-> WireParams(variant, method, params),
   json |-> WireJson(variant, method, payload),
   timeout |-> RequestTimeout]

\* as WireRequests, but the request is issued a second time
WireRequests_retry(req) == <<req, req>>

\* the calls of requests.request made by one _send_request
WireRequests(req) == <<req>>

\* response.raise_for_status()
IsHttpError(status) == status >= 400 /\ status < 600

\* requests.request, raise_for_status and response.json under the two except
\* clauses: a RequestException becomes ConnectionError, anything else
\* RuntimeError.  jsonIsReqExc: the JSON decoding error of response.json is a
\* RequestException (requests 2.27 and later).
HttpOutcome(resp, jsonIsReqExc) ==
  IF resp.neterr THEN Raise("ConnectionError", "network", NoStatus)
  ELSE IF IsHttpError(resp.status)
    THEN Raise("ConnectionError", "http", StrInt(resp.status))
  ELSE IF ~resp.body.isJson
    THEN Raise(IF jsonIsReqExc THEN "ConnectionError" ELSE "RuntimeError",
               "json", NoStatus)
  ELSE Return(resp.body.val)

(* ------------------------------------------------------------------------ *)
(* Domain operations                                                        *)
(* ------------------------------------------------------------------------ *)
\* truth value of a JSON value
PyTruthy(v) ==
  IF v.t = "null" THEN FALSE
  ELSE IF v.t = "str" THEN v.s # <<>>
  ELSE IF v.t \in {"int", "float"} THEN v.n # 0
  ELSE IF v.t = "nan" THEN TRUE
  ELSE IF v.t = "list" THEN v.elems # <<>>
  ELSE v.items # <<>>

\* key in d
JHas(d, k) == \E i \in DOMAIN d.items : d.items[i][1] = k

\* d.get(k)
JGet(d, k) ==
  IF JHas(d, k) THEN d.items[CHOOSE i \in DOMAIN d.items : d.items[i][1] = k][2]
  ELSE PyNone

\* float(v) for a number or a string of decimal digits; anything else raises
PyFloat(v) ==
  IF v.t \in {"int", "float"} THEN Return(PFloat(v.n))
  ELSE IF v.t = "nan" THEN Return(PNaN)
  ELSE IF v.t = "str" /\ IsDecimal(v.s) THEN Return(PFloat(ParseNat(v.s)))
  ELSE Raise("ValueError", "float", NoStatus)

\* as LatestCandle, but the last entry is taken
LatestCandle_last(data) == data.elems[Len(data.elems)]

\* candles_response["data"][0]
LatestCandle(data) == data.elems[1]

\* body of the try block of get_current_price_from_candle once the candles
\* response r is there (r is a JSON object or a JSON list)
PriceFromResponse(r) ==
  IF /\ PyTruthy(r)
     /\ r.t = "dict"
     /\ JHas(r, "data")
     /\ JGet(r, "data").t = "list"
     /\ PyTruthy(JGet(r, "data"))
    THEN LET latest_candle == LatestCandle(JGet(r, "data"))
         IN IF latest_candle.t # "dict"
              THEN Raise("AttributeError", "get", NoStatus)
            ELSE IF PyTruthy(JGet(latest_candle, "c"))
              THEN PyFloat(JGet(latest_candle, "c"))
            ELSE Return(PyNone)
  ELSE Return(PyNone)

\* get_historical_candles, given the outcome o of its _send_request
get_historical_candles(variant, o) ==
  IF variant = Order /\ o.kind = "raise" THEN Reraise("RuntimeError", o) ELSE o

\* as get_current_price_from_candle, but without its except clause
get_current_price_from_candle_raising(o) ==
  IF o.kind = "raise" THEN o ELSE PriceFromResponse(o.val)

\* get_current_price_from_candle, given the outcome o of get_historical_candles
get_current_price_from_candle(o) ==
  LET b == IF o.kind = "raise" THEN o ELSE PriceFromResponse(o.val)
  IN IF b.kind = "raise" THEN Return(PyNone) ELSE b

\* place_order, given the outcome o of its _send_request
place_order(o) == IF o.kind = "raise" THEN Reraise("RuntimeError", o) ELSE o

\* get_order_details, given the outcome o of its _send_request
get_order_details(o) == IF o.kind = "raise" THEN Reraise("RuntimeError", o) ELSE o

\* what operation op hands to its caller when its _send_request ends with o
OpResult(variant, op, o) ==
  CASE op = "get_historical_candles" -> get_historical_candles(variant, o)
    [] op = "get_current_price_from_candle" ->
         get_current_price_from_candle(get_historical_candles(variant, o))
    [] op = "place_order" -> place_order(o)
    [] op = "get_order_details" -> get_order_details(o)
    [] OTHER -> o

\* a / b rounded to the nearest integer, ties to the even one (a >= 0, b > 0)
RoundDiv(a, b) ==
  IF 2 * (a % b) > b \/ (2 * (a % b) = b /\ (a \div b) % 2 = 1)
    THEN (a \div b) + 1
  ELSE a \div b

\* round(TARGET_INR_AMOUNT / current_btc_price, 6) for a price that is nan
\* or a whole number p with 5 <= |p| <= 2147
RoundedQuantity(price) ==
  IF price.t = "nan" THEN PNaN
  ELSE LET p == IF price.n < 0 THEN 0 - price.n ELSE price.n
           m == (TARGET_INR_AMOUNT \div p) * 1000000
                + RoundDiv((TARGET_INR_AMOUNT % p) * 1000000, p)
       IN PMicro(IF price.n < 0 THEN 0 - m ELSE m)

\* btc_quantity <= 0.0 (false when btc_quantity is nan)
QuantityNotPositive(q) == q.t = "micro" /\ q.m <= 0

\* confirm == "yes"
Confirmed(c) == c = <<"y","e","s">>

\* order_response and "order_id" in order_response and
\* order_response["order_id"], for a JSON object or an empty JSON list
HasOrderId(r) ==
  /\ r.t = "dict"
  /\ PyTruthy(r)
  /\ JHas(r, "order_id")
  /\ PyTruthy(JGet(r, "order_id"))

(* ------------------------------------------------------------------------ *)
(* Inputs                                                                   *)
(* ------------------------------------------------------------------------ *)
\* secret keys: 64 hex characters, an odd number of hex characters, too few
\* hex characters, 64 characters that are not all hex
Keys == { [nchars |-> 64, hex |-> TRUE], [nchars |-> 63, hex |-> TRUE],
          [nchars |-> 62, hex |-> TRUE], [nchars |-> 64, hex |-> FALSE] }

Methods == {GET, POST, DELETE, PUT}

Endpoints == { <<"/","x">>, <<"/","x","?","q","=","1">>, <<"/","a","+","b">> }

ParamsAB == Dict(<< <<<<"a">>, PStr(<<"1">>)>>, <<<<"b">>, PStr(<<"2">>)>> >>)
ParamsBA == Dict(<< <<<<"b">>, PInt(2)>>, <<<<"a">>, PStr(<<"x"," ","+","/","%">>)>> >>)
PayloadBA == Dict(<< <<<<"b">>, PInt(2)>>, <<<<"a">>, PInt(1)>> >>)
PayloadAB == Dict(<< <<<<"a">>, PInt(1)>>, <<<<"b">>, PInt(2)>> >>)

\* the (params, payload) pairs of direct calls of _send_request
SendArgs == {<<None, None>>, <<Dict(<<>>), None>>, <<ParamsAB, None>>,
             <<ParamsBA, None>>, <<None, Dict(<<>>)>>, <<None, PayloadBA>>,
             <<None, PayloadAB>>, <<ParamsAB, PayloadBA>>}

Intervals == { <<"1">>, <<"6","0">> }
Sides == { <<"B","U","Y">>, <<"S","E","L","L">> }
LIMIT == <<"L","I","M","I","T">>
Quantities == {1, 2}
Prices == {100}
OrderIds == { <<"o","1">> }

Statuses == {200, 400, 401, 500}

\* what the user types at the confirmation prompt
Answers == { <<"y","e","s">>, <<"Y","E","S">>, <<"n","o">>, <<"y">>, <<>> }

Candle(c) == JDict(<< <<"c", c>> >>)
DataBody(data) == [isJson |-> TRUE, val |-> JDict(<< <<"data", data>> >>)]

\* response bodies: text that is not JSON, and JSON documents
Bodies == <<
  [isJson |-> FALSE, val |-> PyNone],
  [isJson |-> TRUE, val |-> JDict(<<>>)],
  [isJson |-> TRUE, val |-> JList(<<>>)],
  DataBody(JList(<<>>)),
  DataBody(Candle(PStr(<<"1","0","0">>))),
  DataBody(JList(<< Candle(PStr(<<"1","0","0">>)) >>)),
  DataBody(JList(<< Candle(PStr(<<"1","0","0">>)), Candle(PStr(<<"2","0","0">>)) >>)),
  DataBody(JList(<< JDict(<< <<"o", PStr(<<"1">>)>> >>) >>)),
  DataBody(JList(<< Candle(PyNone) >>)),
  DataBody(JList(<< Candle(PStr(<<>>)) >>)),
  DataBody(JList(<< Candle(PStr(<<"a","b","c">>)) >>)),
  DataBody(JList(<< Candle(PInt(0)) >>)),
  DataBody(JList(<< Candle(PStr(<<"0">>)) >>)),
  DataBody(JList(<< Candle(PInt(7)) >>)),
  DataBody(JList(<< Candle(PInt(0 - 5)) >>)),
  DataBody(JList(<< Candle(PNaN) >>)),
  DataBody(JList(<< JList(<<>>) >>)),
  [isJson |-> TRUE, val |-> JDict(<< <<"order_id", PStr(<<"o","1">>)>> >>)],
  [isJson |-> TRUE, val |-> JDict(<< <<"order_id", PStr(<<>>)>> >>)],
  [isJson |-> TRUE, val |-> JDict(<< <<"message", PStr(<<"n","o">>)>> >>)]
>>

(* ------------------------------------------------------------------------ *)
(* State                                                                    *)
(* ------------------------------------------------------------------------ *)
VARIABLES
  secret_key,      \* self.secret_key
  ed25519Supported,\* the cryptography backend supports Ed25519
  jsonErrIsReqExc, \* response.json raises a RequestException (requests >= 2.27)
  clock,           \* int(time.time() * 1000)
  pc,              \* "idle"; "dispatch" while requests.request is awaited;
                   \* "done" when the operation has returned or raised
  call,            \* the operation in progress or last run, and its request
  epoch_time,      \* the local epoch_time of _send_request
  headers,         \* the local headers of _send_request
  wire,            \* the requests.request calls made by this _send_request
  response,        \* what came back from the network
  sendOutcome,     \* what _send_request returned or raised
  result,          \* what the operation returned or raised
  mainPc,          \* position of the order placement script: "off" when it
                   \* is not running, else "price", "prompt", "order",
                   \* "sleep", "details", "finished"
  current_btc_price, \* the script's current_btc_price
  btc_quantity,    \* the script's btc_quantity
  answer,          \* what the user typed at the prompt
  confirm,         \* the script's confirm
  order_response,  \* the script's order_response
  placed,          \* calls of place_order made by the script
  detailed         \* calls of get_order_details made by the script

mainVars == <<mainPc, current_btc_price, btc_quantity, answer, confirm,
              order_response, placed, detailed>>

vars == <<secret_key, ed25519Supported, jsonErrIsReqExc, clock, pc, call,
          epoch_time, headers, wire, response, sendOutcome, result, mainVars>>

env == <<secret_key, ed25519Supported, jsonErrIsReqExc>>

NoCall == [variant |-> "", op |-> "", method |-> <<>>, endpoint |-> <<>>,
           params |-> None, payload |-> None]
NoResponse == [neterr |-> FALSE, status |-> 0, body |-> NoBody]
BaseHeaders(api_key) ==
  ("Content-Type" :> "application/json") @@ ("X-AUTH-APIKEY" :> api_key)

Init ==
  /\ secret_key \in Keys
  /\ ed25519Supported \in BOOLEAN
  /\ jsonErrIsReqExc \in BOOLEAN
  /\ clock = T0
  /\ pc = "idle"
  /\ call = NoCall
  /\ epoch_time = <<>>
  /\ headers = BaseHeaders(COINSWITCH_API_KEY)
  /\ wire = <<>>
  /\ response = NoResponse
  /\ sendOutcome = NotCalled
  /\ result = NotCalled
  /\ mainPc = "off"
  /\ current_btc_price = PyNone
  /\ btc_quantity = PyNone
  /\ answer = <<>>
  /\ confirm = <<>>
  /\ order_response = PyNone
  /\ placed = 0
  /\ detailed = 0

(* ------------------------------------------------------------------------ *)
(* Actions                                                                  *)
(* ------------------------------------------------------------------------ *)
\* time passes
Tick ==
  /\ clock < T0 + MaxTicks
  /\ clock' = clock + 1
  /\ UNCHANGED <<env, pc, call, epoch_time, headers, wire, response,
                 sendOutcome, result, mainVars>>

\* _send_request up to and including the call of requests.request, entered
\* from operation op
BeginSend(variant, op, method, endpoint, params, payload) ==
  LET et == StrInt(clock)
      sig == GenerateSignature(variant, secret_key, ed25519Supported, method,
                               endpoint, et, params, payload)
      hs == Headers(COINSWITCH_API_KEY, sig.val, et)
  IN /\ pc = "idle"
     /\ call' = [variant |-> variant, op |-> op, method |-> method,
                 endpoint |-> endpoint, params |-> params, payload |-> payload]
     /\ epoch_time' = et
     /\ response' = NoResponse
     /\ IF sig.kind = "raise"
          THEN /\ headers' = BaseHeaders(COINSWITCH_API_KEY)
               /\ wire' = <<>>
               /\ sendOutcome' = SignFailure(variant, sig)
               /\ result' = OpResult(variant, op, SignFailure(variant, sig))
               /\ pc' = "done"
          ELSE /\ headers' = hs
               /\ wire' = WireRequests(WireRequest(variant, method, endpoint, hs,
                                                   params, payload))
               /\ sendOutcome' = NotCalled
               /\ result' = NotCalled
               /\ pc' = "dispatch"
     /\ UNCHANGED <<env, clock>>

\* the order placement script is not running
NoMain == mainPc = "off" /\ UNCHANGED mainVars

\* _send_request called directly
SendRequest ==
  \E variant \in Variants, method \in Methods, endpoint \in Endpoints, a \in SendArgs :
    /\ variant = Portfolio => a = <<None, None>>
    /\ BeginSend(variant, "_send_request", method, endpoint, a[1], a[2])
    /\ NoMain

GetAccountBalances ==
  /\ BeginSend(Portfolio, "get_account_balances", GET, PortfolioEndpoint, None, None)
  /\ NoMain

CandleParams(symbol, interval, start_time, end_time, exchange) ==
  Dict(<< <<<<"s","y","m","b","o","l">>, PStr(symbol)>>,
          <<<<"i","n","t","e","r","v","a","l">>, PStr(interval)>>,
          <<<<"s","t","a","r","t","_","t","i","m","e">>, PInt(start_time)>>,
          <<<<"e","n","d","_","t","i","m","e">>, PInt(end_time)>>,
          <<<<"e","x","c","h","a","n","g","e">>, PStr(exchange)>> >>)

\* get_historical_candles called as fetch_btc_data calls it
GetHistoricalCandles ==
  \E variant \in {Price, Order}, interval \in Intervals :
    /\ BeginSend(variant, "get_historical_candles", GET, CandlesEndpoint,
                 CandleParams(TRADE_SYMBOL, interval, clock - FetchLookbackMs, clock,
                              TRADE_EXCHANGE),
                 None)
    /\ NoMain

\* the call of get_current_price_from_candle(symbol, exchange)
BeginPrice(symbol, exchange) ==
  BeginSend(Order, "get_current_price_from_candle", GET, CandlesEndpoint,
            CandleParams(symbol, <<"1">>, clock - PriceLookbackMs, clock, exchange),
            None)

GetCurrentPriceFromCandle ==
  /\ BeginPrice(TRADE_SYMBOL, TRADE_EXCHANGE)
  /\ NoMain

OrderPayload(symbol, side, order_type, quantity, exchange, price) ==
  Dict(<< <<<<"s","i","d","e">>, PStr(side)>>,
          <<<<"s","y","m","b","o","l">>, PStr(symbol)>>,
          <<<<"t","y","p","e">>, PStr(order_type)>>,
          <<<<"q","u","a","n","t","i","t","y">>, quantity>>,
          <<<<"e","x","c","h","a","n","g","e">>, PStr(exchange)>>,
          <<<<"p","r","i","c","e">>, price>> >>)

PlaceOrder ==
  \E side \in Sides, quantity \in Quantities, price \in Prices :
    /\ BeginSend(Order, "place_order", POST, OrderEndpoint, None,
                 OrderPayload(TRADE_SYMBOL, side, LIMIT, PFloat(quantity),
                              TRADE_EXCHANGE, PFloat(price)))
    /\ NoMain

\* the call of get_order_details(order_id), order_id a value
BeginOrderDetails(order_id) ==
  BeginSend(Order, "get_order_details", GET, OrderEndpoint,
            Dict(<< <<<<"o","r","d","e","r","_","i","d">>, order_id>> >>), None)

GetOrderDetails ==
  \E order_id \in OrderIds :
    /\ BeginOrderDetails(PStr(order_id))
    /\ NoMain

\* the rest of _send_request and of the operation that called it, once the
\* network has answered with resp
Complete(resp) ==
  /\ pc = "dispatch"
  /\ response' = resp
  /\ sendOutcome' = HttpOutcome(resp, jsonErrIsReqExc)
  /\ result' = OpResult(call.variant, call.op, HttpOutcome(resp, jsonErrIsReqExc))
  /\ pc' = "done"
  /\ UNCHANGED <<env, clock, call, epoch_time, headers, wire, mainVars>>

\* the operation has returned or raised: the locals of the call are gone
Returned ==
  /\ pc = "done"
  /\ pc' = "idle"
  /\ call' = NoCall
  /\ epoch_time' = <<>>
  /\ headers' = BaseHeaders(COINSWITCH_API_KEY)
  /\ wire' = <<>>
  /\ response' = NoResponse
  /\ sendOutcome' = NotCalled
  /\ result' = NotCalled
  /\ UNCHANGED <<env, clock>>

\* the caller is done with the outcome
Finish == Returned /\ NoMain

\* DNS failure, refused connection, timeout
NetworkFailure == Complete([neterr |-> TRUE, status |-> 0, body |-> NoBody])

\* the server answers
HttpResponse ==
  \E status \in Statuses, i \in DOMAIN Bodies :
    /\ status # 200 => i \in {1, Len(Bodies)}
    /\ Complete([neterr |-> FALSE, status |-> status, body |-> Bodies[i]])

(* The order placement script (the __main__ block of Place_Order.py) *)

sendVars == <<pc, call, epoch_time, headers, wire, response, sendOutcome, result>>

\* the script asks get_current_price_from_candle for the price
MainStart ==
  /\ mainPc = "off"
  /\ BeginPrice(TRADE_SYMBOL, TRADE_EXCHANGE)
  /\ mainPc' = "price"
  /\ UNCHANGED <<current_btc_price, btc_quantity, answer, confirm,
                 order_response, placed, detailed>>

\* the price is back: the quantity is computed and checked
MainGotPrice ==
  /\ mainPc = "price"
  /\ Returned
  /\ current_btc_price' = result.val
  /\ IF PyTruthy(result.val)
       THEN /\ btc_quantity' = RoundedQuantity(result.val)
            /\ mainPc' = IF QuantityNotPositive(RoundedQuantity(result.val))
                           THEN "finished" ELSE "prompt"
       ELSE /\ btc_quantity' = btc_quantity
            /\ mainPc' = "finished"
  /\ UNCHANGED <<answer, confirm, order_response, placed, detailed>>

\* the user answers the prompt; on "yes" place_order is called
MainAnswer ==
  \E a \in Answers :
    /\ mainPc = "prompt"
    /\ answer' = a
    /\ confirm' = PyLower(a)
    /\ IF Confirmed(PyLower(a))
         THEN /\ BeginSend(Order, "place_order", POST, OrderEndpoint, None,
                           OrderPayload(TRADE_SYMBOL, <<"B","U","Y">>, LIMIT,
                                        btc_quantity, TRADE_EXCHANGE,
                                        current_btc_price))
              /\ placed' = placed + 1
              /\ mainPc' = "order"
         ELSE /\ mainPc' = "finished"
              /\ UNCHANGED <<env, clock, sendVars, placed>>
    /\ UNCHANGED <<current_btc_price, btc_quantity, order_response, detailed>>

\* place_order has returned or raised; its response is looked at
MainGotOrder ==
  /\ mainPc = "order"
  /\ Returned
  /\ IF result.kind = "raise"
       THEN /\ order_response' = order_response
            /\ mainPc' = "finished"
       ELSE /\ order_response' = result.val
            /\ mainPc' = IF HasOrderId(result.val) THEN "sleep" ELSE "finished"
  /\ UNCHANGED <<current_btc_price, btc_quantity, answer, confirm, placed,
                 detailed>>

\* after time.sleep(2): the details of the new order are asked for
MainDetails ==
  /\ mainPc = "sleep"
  /\ BeginOrderDetails(JGet(order_response, "order_id"))
  /\ detailed' = detailed + 1
  /\ mainPc' = "details"
  /\ UNCHANGED <<current_btc_price, btc_quantity, answer, confirm,
                 order_response, placed>>

\* get_order_details has returned or raised
MainGotDetails ==
  /\ mainPc = "details"
  /\ Returned
  /\ mainPc' = "finished"
  /\ UNCHANGED <<current_btc_price, btc_quantity, answer, confirm,
                 order_response, placed, detailed>>

\* the script ends
MainExit ==
  /\ mainPc = "finished"
  /\ mainPc' = "off"
  /\ current_btc_price' = PyNone
  /\ btc_quantity' = PyNone
  /\ answer' = <<>>
  /\ confirm' = <<>>
  /\ order_response' = PyNone
  /\ placed' = 0
  /\ detailed' = 0
  /\ UNCHANGED <<env, clock, sendVars>>

Next ==
  \/ Tick
  \/ SendRequest
  \/ GetAccountBalances
  \/ GetHistoricalCandles
  \/ GetCurrentPriceFromCandle
  \/ PlaceOrder
  \/ GetOrderDetails
  \/ NetworkFailure
  \/ HttpResponse
  \/ Finish
  \/ MainStart
  \/ MainGotPrice
  \/ MainAnswer
  \/ MainGotOrder
  \/ MainDetails
  \/ MainGotDetails
  \/ MainExit

Spec == Init /\ [][Next]_vars

(* ------------------------------------------------------------------------ *)
(* Properties                                                               *)
(* ------------------------------------------------------------------------ *)
IsPrefix(p, t) == Len(p) <= Len(t) /\ SubSeq(t, 1, Len(p)) = p

\* the message under the signature of a request on the wire
SignedMsg(r) == r.headers["X-AUTH-SIGNATURE"].msg

Dispatched == wire # <<>>

\* C1: in every request handed to requests.request, the X-AUTH-EPOCH header
\* is the epoch_time captured by this _send_request, and the signed message is
\* method + endpoint portion + that same header value (+ payload part).
C1_EpochHeaderIsSignedEpoch ==
  \A i \in DOMAIN wire :
    /\ wire[i].headers["X-AUTH-EPOCH"] = epoch_time
    /\ IsPrefix(call.method
                \o EndpointForSignature(call.variant, call.method, call.endpoint,
                                        call.params)
                \o wire[i].headers["X-AUTH-EPOCH"],
                SignedMsg(wire[i]))
    /\ Len(SignedMsg(wire[i])) =
         Len(call.method)
         + Len(EndpointForSignature(call.variant, call.method, call.endpoint,
                                    call.params))
         + Len(wire[i].headers["X-AUTH-EPOCH"])
         + Len(PayloadForSignature(call.variant, call.payload))

\* a request is on the wire, signed with an epoch the clock has since left
C1_Witness ==
  /\ pc = "dispatch"
  /\ Dispatched
  /\ wire[1].headers["X-AUTH-EPOCH"] # StrInt(clock)

\* C2: whenever a request goes out carrying a (non-empty) payload as its
\* body, as every place_order POST does, the signed message is method +
\* endpoint portion + epoch_time + canonical JSON of that payload.
C2_PayloadIsSigned ==
  \A i \in DOMAIN wire :
    DictTruthy(wire[i].json) =>
      SignedMsg(wire[i]) =
        call.method
        \o EndpointForSignature(call.variant, call.method, call.endpoint, call.params)
        \o epoch_time
        \o json_dumps(call.payload)

\* what the operation in progress gives its caller when the network fails
NetworkFailureResult ==
  OpResult(call.variant, call.op,
           HttpOutcome([neterr |-> TRUE, status |-> 0, body |-> NoBody],
                       jsonErrIsReqExc))

\* C3: when the server answers with a status >= 400, _send_request and the
\* operation built on it fail with an error that carries the status and the
\* body and that differs in kind from a network failure.
C3_HttpErrorCarriesStatusAndBody ==
  (pc = "done" /\ Dispatched /\ ~response.neterr /\ response.status >= 400) =>
    /\ sendOutcome.kind = "raise"
    /\ result.kind = "raise"
    /\ result.status = StrInt(response.status)
    /\ result.body = response.body
    /\ result.exc # NetworkFailureResult.exc

PriceOp == pc = "done" /\ call.op = "get_current_price_from_candle"

\* the candles response r has a non-empty data list
HasData(r) ==
  /\ r.t = "dict"
  /\ JHas(r, "data")
  /\ JGet(r, "data").t = "list"
  /\ JGet(r, "data").elems # <<>>

FirstEntry(r) == JGet(r, "data").elems[1]

\* the first entry of r has the field "c"
FirstHasC(r) == HasData(r) /\ FirstEntry(r).t = "dict" /\ JHas(FirstEntry(r), "c")

\* v is a price: a number, or a string of decimal digits
IsPrice(v) == v.t \in {"int", "float"} \/ (v.t = "str" /\ IsDecimal(v.s))
PriceOf(v) == IF v.t = "str" THEN ParseNat(v.s) ELSE v.n

Unavailable(o) == o.kind = "return" /\ o.val.t = "null"

\* C4 (as claimed): a failure of the candles request is propagated by
\* get_current_price_from_candle as an error, and "unavailable" is returned
\* only when the data list is empty or missing or the first entry has no
\* close price.
C4_FailuresPropagate ==
  PriceOp =>
    /\ sendOutcome.kind = "raise" => result.kind = "raise"
    /\ Unavailable(result) =>
         /\ sendOutcome.kind = "return"
         /\ ~(FirstHasC(sendOutcome.val)
              /\ IsPrice(JGet(FirstEntry(sendOutcome.val), "c")))

\* C4 (amended): get_current_price_from_candle never raises; a failure of
\* the candles request (signing, transport, HTTP status, malformed body)
\* makes it return "unavailable".
C4_FailuresBecomeUnavailable ==
  PriceOp =>
    /\ result.kind = "return"
    /\ sendOutcome.kind = "raise" => Unavailable(result)

\* an HTTP error of the candles request has ended as "unavailable"
C4_Witness ==
  /\ PriceOp
  /\ sendOutcome.kind = "raise"
  /\ sendOutcome.origin = "http"
  /\ Unavailable(result)

\* C5 (as claimed): for a candles response with an empty or missing data
\* list, or whose first entry lacks "c", get_current_price_from_candle
\* returns "unavailable" without raising; when the first entry has a close
\* price it returns that price as a number.
C5_ClosePriceReturned ==
  (PriceOp /\ sendOutcome.kind = "return") =>
    /\ result.kind = "return"
    /\ ~FirstHasC(sendOutcome.val) => Unavailable(result)
    /\ (FirstHasC(sendOutcome.val) /\ IsPrice(JGet(FirstEntry(sendOutcome.val), "c")))
         => result.val = PFloat(PriceOf(JGet(FirstEntry(sendOutcome.val), "c")))

\* v is a close price the operation reports: a string of decimal digits or a
\* number other than zero (nan is one)
IsReportedPrice(v) ==
  \/ v.t = "str" /\ IsDecimal(v.s)
  \/ v.t \in {"int", "float"} /\ v.n # 0
  \/ v.t = "nan"

\* the close price v as a number
ReportedPrice(v) == IF v.t = "nan" THEN PNaN ELSE PFloat(PriceOf(v))

\* C5 (amended): get_current_price_from_candle returns the first entry's
\* close price as a number when that entry has a "c" that is a numeric string
\* or a non-zero number, and "unavailable", without raising, in every other
\* case: data list empty or missing, "c" missing, null, empty, zero or not
\* a number.
C5_ClosePriceOrUnavailable ==
  (PriceOp /\ sendOutcome.kind = "return") =>
    /\ result.kind = "return"
    /\ IF FirstHasC(sendOutcome.val)
          /\ IsReportedPrice(JGet(FirstEntry(sendOutcome.val), "c"))
         THEN result.val = ReportedPrice(JGet(FirstEntry(sendOutcome.val), "c"))
       ELSE Unavailable(result)

\* two candles came back and the close price of the first was returned
C5_Witness ==
  /\ PriceOp
  /\ sendOutcome.kind = "return"
  /\ HasData(sendOutcome.val)
  /\ Len(JGet(sendOutcome.val, "data").elems) = 2
  /\ result.val = PFloat(100)

ValidKey == [nchars |-> 64, hex |-> TRUE]
KeyInvalid(key) == ~(key.hex /\ key.nchars = 64)

\* what _send_request of the variant in use raises for the other failures
SigningErrorOutcome ==
  SignFailure(call.variant,
              GenerateSignature(call.variant, ValidKey, FALSE, call.method,
                                call.endpoint, epoch_time, call.params, call.payload))
TransportErrorOutcome ==
  HttpOutcome([neterr |-> TRUE, status |-> 0, body |-> NoBody], jsonErrIsReqExc)
HttpErrorOutcome ==
  HttpOutcome([neterr |-> FALSE, status |-> 401, body |-> Bodies[1]], jsonErrIsReqExc)
MalformedResponseOutcome ==
  HttpOutcome([neterr |-> FALSE, status |-> 200, body |-> Bodies[1]], jsonErrIsReqExc)

\* C6: with a secret key that is not 64 hex characters every send fails with
\* an error whose kind differs from that of a signing error, a transport
\* error, an HTTP error and a malformed response.
C6_InvalidKeyIsDistinct ==
  (pc = "done" /\ KeyInvalid(secret_key)) =>
    /\ sendOutcome.kind = "raise"
    /\ sendOutcome.exc \notin {SigningErrorOutcome.exc, TransportErrorOutcome.exc,
                               HttpErrorOutcome.exc, MalformedResponseOutcome.exc}

\* C7: a network failure and a successful status with a body that is not
\* JSON both make _send_request fail, with errors of different kinds.
C7_TransportAndMalformedDiffer ==
  (pc = "done" /\ Dispatched) =>
    /\ response.neterr => sendOutcome.kind = "raise"
    /\ (~response.neterr /\ ~IsHttpError(response.status) /\ ~response.body.isJson) =>
         /\ sendOutcome.kind = "raise"
         /\ sendOutcome.exc # TransportErrorOutcome.exc

\* C8: one _send_request issues at most one HTTP request, none when signing
\* fails, and every failure of the one request is raised to the caller.
C8_AtMostOneRequest ==
  /\ Len(wire) <= 1
  /\ (pc # "idle" /\ (KeyInvalid(secret_key) \/ ~ed25519Supported)) =>
       (wire = <<>> /\ sendOutcome.kind = "raise")
  /\ (pc = "done" /\ Dispatched
      /\ (response.neterr \/ IsHttpError(response.status) \/ ~response.body.isJson)) =>
       sendOutcome.kind = "raise"

\* the single request failed and the failure is with the caller
C8_Witness ==
  /\ pc = "done"
  /\ Len(wire) = 1
  /\ response.neterr
  /\ sendOutcome.kind = "raise"

\* C9: params go out only with GET, the payload goes out as JSON body only
\* with POST or DELETE; otherwise the argument is not transmitted.
C9_ParamsOnlyGetBodyOnlyPostDelete ==
  \A i \in DOMAIN wire :
    /\ ~wire[i].params.isNone => wire[i].method = GET
    /\ ~wire[i].json.isNone => wire[i].method \in {POST, DELETE}
    /\ wire[i].method = call.method

\* a POST was given params and a payload: only the payload went out
C9_Witness ==
  /\ Dispatched
  /\ call.method = POST
  /\ ~call.params.isNone
  /\ wire[1].params.isNone
  /\ ~wire[1].json.isNone

\* key=value pairs as supplied, joined by "&"
RawPairs(params) ==
  Join(<<"&">>, [i \in DOMAIN params.items |->
                   params.items[i][1] \o <<"=">> \o PyStr(params.items[i][2])])

QuerySeparator(endpoint) == IF UrlQuery(endpoint) = <<>> THEN <<"?">> ELSE <<"&">>

\* C10 (as claimed): for a GET with non-empty params the endpoint portion of
\* the signed message is the endpoint, then "?" or "&", then the key=value
\* pairs in the order supplied; otherwise it is the endpoint unmodified.
C10_EndpointPortion ==
  \A i \in DOMAIN wire :
    IsPrefix(call.method
             \o (IF call.method = GET /\ DictTruthy(call.params)
                   THEN call.endpoint \o QuerySeparator(call.endpoint)
                        \o RawPairs(call.params)
                 ELSE call.endpoint)
             \o epoch_time,
             SignedMsg(wire[i]))

\* C10 (amended): as claimed, except that for a GET with non-empty params the
\* endpoint itself enters with every "+" turned into a space and every %XX
\* escape decoded.
C10_EndpointPortionDecoded ==
  \A i \in DOMAIN wire :
    IsPrefix(call.method
             \o (IF call.method = GET /\ DictTruthy(call.params)
                   THEN unquote_plus(call.endpoint) \o QuerySeparator(call.endpoint)
                        \o RawPairs(call.params)
                 ELSE call.endpoint)
             \o epoch_time,
             SignedMsg(wire[i]))

\* a GET for an endpoint with a "+" went out with params that need escaping
C10_Witness ==
  /\ Dispatched
  /\ call.method = GET
  /\ call.endpoint = <<"/","a","+","b">>
  /\ call.params = ParamsBA

\* a request to the order endpoint is with requests.request
OrderRequestSent == \E i \in DOMAIN wire : call.endpoint = OrderEndpoint

\* C11: in a run of the order placement script place_order is called at most
\* once, and only after, in this order, get_current_price_from_candle
\* returned an available non-zero price, the computed quantity was greater
\* than zero and the user answered exactly "yes"; get_order_details is
\* called only after place_order returned a response with a non-empty
\* order_id; on every other path no order request is sent.  The answer is
\* taken without regard to case, as the script takes it.
C11_OrderOnlyWhenPricedPositiveAndConfirmed ==
  /\ placed <= 1
  /\ mainPc \in {"price", "prompt"} => placed = 0
  /\ mainPc = "prompt" =>
       (current_btc_price # PyNone /\ btc_quantity # PyNone /\ answer = <<>>)
  /\ placed = 1 =>
       /\ current_btc_price \notin {PyNone, PFloat(0)}
       /\ btc_quantity.t = "micro"
       /\ btc_quantity.m > 0
       /\ PyLower(answer) = <<"y","e","s">>
  /\ detailed >= 1 =>
       /\ placed = 1
       /\ order_response.t = "dict"
       /\ JHas(order_response, "order_id")
       /\ JGet(order_response, "order_id") \notin {PyNone, PStr(<<>>)}
  /\ (mainPc # "off" /\ OrderRequestSent) => placed = 1

\* what the signed message of request r holds after the epoch
SignedAfterEpoch(r) ==
  SubSeq(SignedMsg(r),
         Len(call.method)
         + Len(EndpointForSignature(call.variant, call.method, call.endpoint,
                                    call.params))
         + Len(epoch_time) + 1,
         Len(SignedMsg(r)))

\* C12: the signed message covers exactly what is transmitted: the query
\* string of the params is in it if and only if the params go out with the
\* request, and the JSON of the payload is in it if and only if the payload
\* goes out as the body of the request.
C12_SignedIsTransmitted ==
  \A i \in DOMAIN wire :
    /\ IsPrefix(call.method
                \o (IF DictTruthy(wire[i].params)
                      THEN unquote_plus(call.endpoint) \o QuerySeparator(call.endpoint)
                           \o RawPairs(wire[i].params)
                    ELSE call.endpoint)
                \o epoch_time,
                SignedMsg(wire[i]))
    /\ SignedAfterEpoch(wire[i]) =
         (IF wire[i].json.isNone THEN <<>> ELSE json_dumps(wire[i].json))

====
